---- MODULE Spec2Model ----
(***************************************************************************)
(* Model of the pilots-intent prediction engine: the prediction driver     *)
(* (predict.rs), the steppers (forward_euler.rs, rk4.rs,                   *)
(* backward_euler.rs), the Newton solver (newton.rs) and the dynamics      *)
(* models (simple_quadcopter_model.rs, simple_model.rs).                   *)
(*                                                                         *)
(* f64 values are modelled on an integer grid: the finite values are the   *)
(* integers of magnitude at most MaxFinite, and there are three            *)
(* non-finite values PInf, NInf and NaN.  Every arithmetic operation       *)
(* rounds to the grid, overflows to an infinity and propagates NaN as      *)
(* IEEE-754 does.  Lengths are in units of 1e-4 m, angles in hundredths    *)
(* of a right angle, tan() is scaled by 100, cos()/sin() are exact on      *)
(* whole right angles.                                                     *)
(***************************************************************************)
EXTENDS Integers, Sequences, FiniteSets, TLC

\* ------------------------------------------------------------------------
\* Bounds of the model
\* ------------------------------------------------------------------------
MaxFinite == 1000000000
MaxSteps == 3
MaxDtUnits == 1
MaxIterMax == 3
MaxZ == 8

\* ------------------------------------------------------------------------
\* f64 arithmetic on the grid
\* ------------------------------------------------------------------------
PInf == MaxFinite + 1
NInf == -(MaxFinite + 1)
NaN == MaxFinite + 2

Abs(v) == IF v < 0 THEN -v ELSE v

IsFinite(a) == a >= -MaxFinite /\ a <= MaxFinite

IsInf(a) == a = PInf \/ a = NInf

Round(v) == IF v > MaxFinite THEN PInf ELSE IF v < -MaxFinite THEN NInf ELSE v

SignedInf(positive) == IF positive THEN PInf ELSE NInf

FNeg(a) == IF a = NaN THEN NaN ELSE -a

FAdd(a, b) ==
  IF a = NaN \/ b = NaN THEN NaN
  ELSE IF a = PInf THEN (IF b = NInf THEN NaN ELSE PInf)
  ELSE IF a = NInf THEN (IF b = PInf THEN NaN ELSE NInf)
  ELSE IF IsInf(b) THEN b
  ELSE Round(a + b)

FSub(a, b) == FAdd(a, FNeg(b))

FMul(a, b) ==
  IF a = NaN \/ b = NaN THEN NaN
  ELSE IF IsInf(a) \/ IsInf(b)
    THEN (IF a = 0 \/ b = 0 THEN NaN ELSE SignedInf((a > 0) = (b > 0)))
  ELSE IF a = 0 \/ b = 0 THEN 0
  ELSE IF Abs(a) > MaxFinite \div Abs(b) THEN SignedInf((a > 0) = (b > 0))
  ELSE a * b

FDiv(a, b) ==
  IF a = NaN \/ b = NaN THEN NaN
  ELSE IF IsInf(a) THEN (IF IsInf(b) THEN NaN ELSE SignedInf((a > 0) = (b >= 0)))
  ELSE IF IsInf(b) THEN 0
  ELSE IF b = 0 THEN (IF a = 0 THEN NaN ELSE SignedInf(a > 0))
  ELSE IF (a >= 0) = (b > 0) THEN Abs(a) \div Abs(b)
  ELSE -(Abs(a) \div Abs(b))

FLt(a, b) == a # NaN /\ b # NaN /\ a < b

FGt(a, b) == a # NaN /\ b # NaN /\ a > b

FAbs(a) == IF a = NaN THEN NaN ELSE Abs(a)

\* f64::max: a NaN operand is ignored
FMax(a, b) == IF a = NaN THEN b ELSE IF b = NaN THEN a ELSE IF a > b THEN a ELSE b

\* f64::clamp
FClamp(a, lo, hi) == IF a = NaN THEN NaN ELSE IF a < lo THEN lo ELSE IF a > hi THEN hi ELSE a

\* ------------------------------------------------------------------------
\* Trigonometry on the grid (angles in hundredths of a right angle)
\* ------------------------------------------------------------------------
FRAC_PI_2 == 100

\* tan(pi/2) in f64 is a large finite number
TanRightAngle == 10000000

\* round(100 * tan(a * 0.9 degrees)) for a = 0..99
Tan100 ==
  << 0, 2, 3, 5, 6, 8, 9, 11, 13, 14, 16, 17, 19, 21, 22, 24, 26, 27, 29, 31,
     32, 34, 36, 38, 40, 41, 43, 45, 47, 49, 51, 53, 55, 57, 59, 61, 63, 66, 68, 70,
     73, 75, 78, 80, 83, 85, 88, 91, 94, 97, 100, 103, 106, 110, 113, 117, 121, 125, 129, 133,
     138, 142, 147, 152, 158, 163, 169, 175, 182, 189, 196, 204, 213, 221, 231, 241, 253, 265, 278, 292,
     308, 325, 344, 366, 389, 417, 447, 483, 524, 573, 631, 703, 792, 906, 1058, 1271, 1589, 2120, 3182, 6366 >>

FTan(a) ==
  IF ~IsFinite(a) THEN NaN
  ELSE LET r == a % (2 * FRAC_PI_2)
       IN IF r < FRAC_PI_2 THEN Tan100[r + 1]
          ELSE IF r = FRAC_PI_2 THEN TanRightAngle
          ELSE -Tan100[(2 * FRAC_PI_2 - r) + 1]

FCos(a) ==
  IF ~IsFinite(a) THEN NaN
  ELSE << 1, 0, -1, 0 >>[((a \div FRAC_PI_2) % 4) + 1]

FSin(a) ==
  IF ~IsFinite(a) THEN NaN
  ELSE << 0, 1, 0, -1 >>[((a \div FRAC_PI_2) % 4) + 1]

\* ------------------------------------------------------------------------
\* Vectors and matrices (DVector / DMatrix)
\* ------------------------------------------------------------------------
VSub(a, b) == [j \in 1..Len(a) |-> FSub(a[j], b[j])]

VScale(a, s) == [j \in 1..Len(a) |-> FMul(a[j], s)]

Identity(m) == [r \in 1..m |-> [c \in 1..m |-> IF r = c THEN 1 ELSE 0]]

MatScale(A, s) == [r \in 1..Len(A) |-> [c \in 1..Len(A[r]) |-> FMul(A[r][c], s)]]

MatSub(A, B) == [r \in 1..Len(A) |-> [c \in 1..Len(A[r]) |-> FSub(A[r][c], B[r][c])]]

\* ------------------------------------------------------------------------
\* Linear solve of newton: jx.lu().solve(&fx)
\* Every Jacobian of the model is upper triangular, so partial pivoting
\* never swaps rows, L is the identity and U is the matrix itself; the
\* solve is the column-oriented back substitution and it fails (None)
\* exactly when a diagonal entry of U is zero.
\* ------------------------------------------------------------------------
IsSingular(U) == \E r \in 1..Len(U) : U[r][r] = 0

RECURSIVE SolveUpper(_, _, _)
SolveUpper(U, b, i) ==
  IF i = 0 THEN b
  ELSE LET coeff == FDiv(b[i], U[i][i])
           b2 == [r \in 1..Len(b) |->
                    IF r = i THEN coeff
                    ELSE IF r < i THEN FSub(b[r], FMul(coeff, U[r][i]))
                    ELSE b[r]]
       IN SolveUpper(U, b2, i - 1)

LuSolve_Unchecked(J, b) == [some |-> TRUE, val |-> SolveUpper(J, b, Len(b))]

LuSolve(J, b) ==
  IF IsSingular(J) THEN [some |-> FALSE, val |-> b]
  ELSE [some |-> TRUE, val |-> SolveUpper(J, b, Len(b))]

\* ------------------------------------------------------------------------
\* Dynamics models
\* A state is <<north, east, v_north, v_east, yaw>>, a control is
\* <<ax_body, ay_body, yaw_rate>>.
\* ------------------------------------------------------------------------
GRAVITY == 981

MAX_TILT_RAD == (FRAC_PI_2 * 95) \div 100

ensure_finite(state) == \A j \in 1..Len(state) : IsFinite(state[j])

add_scaled(state, derivative, scale) ==
  [j \in 1..Len(state) |-> FAdd(state[j], FMul(scale, derivative[j]))]

to_dvector(state) == state

\* from_dvector asserts the length
from_dvector(v) == [ok |-> Len(v) = 5, val |-> v]

QuadInputToControl(input) ==
  LET pitch == FClamp(input.pitch_rad, -MAX_TILT_RAD, MAX_TILT_RAD)
      roll == FClamp(input.roll_rad, -MAX_TILT_RAD, MAX_TILT_RAD)
  IN << FMul(GRAVITY, FTan(pitch)), FMul(-GRAVITY, FTan(roll)), input.yaw_rate_rps >>

SimpleModelInputToControl(input) ==
  << FMul(GRAVITY, FTan(input.pitch_rad)), FMul(-GRAVITY, FTan(input.roll_rad)),
     input.yaw_rate_rps >>

\* the rotate-and-drag right-hand side shared by both models
RotateAndDrag_DragOnPosition(drag, state, control) ==
  LET c == FCos(state[5])
      s == FSin(state[5])
      ax_n == FSub(FMul(control[1], c), FMul(control[2], s))
      ay_e == FAdd(FMul(control[1], s), FMul(control[2], c))
      dv_n == FSub(ax_n, FMul(drag, state[1]))
      dv_e == FSub(ay_e, FMul(drag, state[2]))
  IN << state[3], state[4], dv_n, dv_e, control[3] >>

RotateAndDrag(drag, state, control) ==
  LET c == FCos(state[5])
      s == FSin(state[5])
      ax_n == FSub(FMul(control[1], c), FMul(control[2], s))
      ay_e == FAdd(FMul(control[1], s), FMul(control[2], c))
      dv_n == FSub(ax_n, FMul(drag, state[3]))
      dv_e == FSub(ay_e, FMul(drag, state[4]))
  IN << state[3], state[4], dv_n, dv_e, control[3] >>

\* SimpleQuadcopter::derivative panics on a non-finite state
QuadDerivative(model, t, state, control) ==
  IF ~ensure_finite(state) THEN [ok |-> FALSE, val |-> state]
  ELSE [ok |-> TRUE, val |-> RotateAndDrag(model.drag, state, control)]

SimpleModelF(model, state, control) ==
  [ok |-> TRUE, val |-> RotateAndDrag(model.drag, state, control)]

QuadJacobian(model, t, state, control) ==
  LET c == FCos(state[5])
      s == FSin(state[5])
      dax_dyaw == FSub(FMul(FNeg(control[1]), s), FMul(control[2], c))
      day_dyaw == FSub(FMul(control[1], c), FMul(control[2], s))
  IN << << 0, 0, 1, 0, 0 >>,
        << 0, 0, 0, 1, 0 >>,
        << 0, 0, FNeg(model.drag), 0, dax_dyaw >>,
        << 0, 0, 0, FNeg(model.drag), day_dyaw >>,
        << 0, 0, 0, 0, 0 >> >>

\* Dynamics::input_to_control, dispatched on the model
InputToControl(model, input) ==
  IF model.kind = "SimpleQuadcopter" THEN QuadInputToControl(input)
  ELSE SimpleModelInputToControl(input)

\* Dynamics::derivative (f in SimpleModel), dispatched on the model
Derivative(model, t, state, control) ==
  IF model.kind = "SimpleQuadcopter" THEN QuadDerivative(model, t, state, control)
  ELSE SimpleModelF(model, state, control)

\* Dynamics::validate_state: TRUE when the hook returns, FALSE when it panics.
\* SimpleModel keeps the default no-op.
ValidateState(model, state) ==
  IF model.kind = "SimpleQuadcopter" THEN ensure_finite(state) ELSE TRUE

\* ------------------------------------------------------------------------
\* Events of a run
\* ------------------------------------------------------------------------
NoState == << >>

NoControl == << >>

Ev(op, t, state, control, dt) ==
  [op |-> op, t |-> t, state |-> state, control |-> control, dt |-> dt]

DerivEv(t, state, control) == Ev("derivative", t, state, control, 0)

\* ------------------------------------------------------------------------
\* Explicit steppers: result of one step, with the derivative calls made
\* ------------------------------------------------------------------------
StepResult(ok, val, calls) == [ok |-> ok, val |-> val, calls |-> calls]

DtValid_FiniteOnly(dt) == IsFinite(dt)

DtValid(dt) == IsFinite(dt) /\ FGt(dt, 0)

ForwardEulerStep(model, state, control, dt) ==
  IF ~IsFinite(dt) THEN StepResult(FALSE, state, << >>)
  ELSE IF ~FGt(dt, 0) THEN StepResult(FALSE, state, << >>)
  ELSE LET dx == Derivative(model, 0, state, control)
           calls == << DerivEv(0, state, control) >>
       IN IF ~dx.ok THEN StepResult(FALSE, state, calls)
          ELSE IF Len(dx.val) # Len(state) THEN StepResult(FALSE, state, calls)
          ELSE StepResult(TRUE,
                 [j \in 1..Len(state) |-> FAdd(state[j], FMul(dt, dx.val[j]))],
                 calls)

\* k1 + 2 k2 + 2 k3 + k4, accumulated with add_scaled
Rk4Increment_EqualWeights(k1, k2, k3, k4) ==
  add_scaled(add_scaled(add_scaled(k1, k2, 1), k3, 1), k4, 1)

Rk4Increment(k1, k2, k3, k4) ==
  add_scaled(add_scaled(add_scaled(k1, k2, 2), k3, 2), k4, 1)

Rk4Step(model, t, state, control, dt) ==
  IF ~DtValid(dt) THEN StepResult(FALSE, state, << >>)
  ELSE
    LET half_dt == FDiv(dt, 2)
        k1 == Derivative(model, t, state, control)
        e1 == << DerivEv(t, state, control) >>
        state_k2 == add_scaled(state, k1.val, half_dt)
        k2 == Derivative(model, FAdd(t, half_dt), state_k2, control)
        e2 == Append(e1, DerivEv(FAdd(t, half_dt), state_k2, control))
        state_k3 == add_scaled(state, k2.val, half_dt)
        k3 == Derivative(model, FAdd(t, half_dt), state_k3, control)
        e3 == Append(e2, DerivEv(FAdd(t, half_dt), state_k3, control))
        state_k4 == add_scaled(state, k3.val, dt)
        k4 == Derivative(model, FAdd(t, dt), state_k4, control)
        e4 == Append(e3, DerivEv(FAdd(t, dt), state_k4, control))
        dt_over_6 == FDiv(dt, 6)
        incr == Rk4Increment(k1.val, k2.val, k3.val, k4.val)
    IN IF ~k1.ok THEN StepResult(FALSE, state, e1)
       ELSE IF ~k2.ok THEN StepResult(FALSE, state, e2)
       ELSE IF ~k3.ok THEN StepResult(FALSE, state, e3)
       ELSE IF ~k4.ok THEN StepResult(FALSE, state, e4)
       ELSE StepResult(TRUE, add_scaled(state, incr, dt_over_6), e4)

\* ------------------------------------------------------------------------
\* Newton solver: the residual and Jacobian closures it is called with.
\* A problem is [kind, c, jdiag, t, dt, control]:
\*   "shifted"   F(x) = x - c,  J(x) = jdiag * I
\*   "constant"  F(x) = c,      J(x) = jdiag * I
\*   "be"        the closures f_newton / j_newton of BackwardEuler::step,
\*               with c = u_prev
\* ------------------------------------------------------------------------
DefaultIterMax == 15

NewtonOptsDefault == [iter_max |-> DefaultIterMax, min_error |-> 1]

Problem(kind, c, jdiag, t, dt, control) ==
  [kind |-> kind, c |-> c, jdiag |-> jdiag, t |-> t, dt |-> dt, control |-> control]

\* f_newton of BackwardEuler::step: x - u_prev - dt * f(t + dt, x)
BeResidual(model, prob, x) ==
  LET x_state == from_dvector(x)
      fx == Derivative(model, FAdd(prob.t, prob.dt), x_state.val, prob.control)
      calls == << DerivEv(FAdd(prob.t, prob.dt), x_state.val, prob.control) >>
  IN IF ~x_state.ok THEN [ok |-> FALSE, val |-> x, calls |-> << >>]
     ELSE IF ~fx.ok THEN [ok |-> FALSE, val |-> x, calls |-> calls]
     ELSE [ok |-> TRUE,
           val |-> VSub(VSub(x, prob.c), VScale(to_dvector(fx.val), prob.dt)),
           calls |-> calls]

\* j_newton of BackwardEuler::step: I - dt * df/dx
BeJacobian_Added(model, prob, x) ==
  LET x_state == from_dvector(x)
      m == Len(prob.c)
      j == QuadJacobian(model, FAdd(prob.t, prob.dt), x_state.val, prob.control)
      calls == << Ev("jacobian", FAdd(prob.t, prob.dt), x_state.val, prob.control, 0) >>
  IN IF ~x_state.ok THEN [ok |-> FALSE, val |-> << >>, calls |-> << >>]
     ELSE IF ~(Len(j) = m /\ \A r \in 1..Len(j) : Len(j[r]) = m)
       THEN [ok |-> FALSE, val |-> << >>, calls |-> calls]
     ELSE [ok |-> TRUE,
           val |-> [r \in 1..m |-> [c \in 1..m |->
                      FAdd(Identity(m)[r][c], FMul(j[r][c], prob.dt))]],
           calls |-> calls]

BeJacobian(model, prob, x) ==
  LET x_state == from_dvector(x)
      m == Len(prob.c)
      j == QuadJacobian(model, FAdd(prob.t, prob.dt), x_state.val, prob.control)
      calls == << Ev("jacobian", FAdd(prob.t, prob.dt), x_state.val, prob.control, 0) >>
  IN IF ~x_state.ok THEN [ok |-> FALSE, val |-> << >>, calls |-> << >>]
     ELSE IF ~(Len(j) = m /\ \A r \in 1..Len(j) : Len(j[r]) = m)
       THEN [ok |-> FALSE, val |-> << >>, calls |-> calls]
     ELSE [ok |-> TRUE, val |-> MatSub(Identity(m), MatScale(j, prob.dt)), calls |-> calls]

Residual(model, prob, x) ==
  IF prob.kind = "be" THEN BeResidual(model, prob, x)
  ELSE IF prob.kind = "constant" THEN [ok |-> TRUE, val |-> prob.c, calls |-> << >>]
  ELSE [ok |-> TRUE, val |-> VSub(x, prob.c), calls |-> << >>]

JacobianOf(model, prob, x) ==
  IF prob.kind = "be" THEN BeJacobian(model, prob, x)
  ELSE [ok |-> TRUE, val |-> MatScale(Identity(Len(x)), prob.jdiag), calls |-> << >>]

\* fx.iter().fold(0.0, |acc, &v| acc.max(v.abs()))
RECURSIVE MaxAbsFrom(_, _, _)
MaxAbsFrom(fx, j, acc) ==
  IF j > Len(fx) THEN acc ELSE MaxAbsFrom(fx, j + 1, FMax(acc, FAbs(fx[j])))

MaxAbs(fx) == MaxAbsFrom(fx, 1, 0)

Converged_NonStrict(fx, opts) == ~FGt(MaxAbs(fx), opts.min_error)

Converged(fx, opts) == FLt(MaxAbs(fx), opts.min_error)

\* for _ in 1..opts.iter_max, with k the loop variable
NewtonLoopContinues_FromZeroInclusive(k, opts) == k <= opts.iter_max + 1

NewtonLoopContinues(k, opts) == k < opts.iter_max

\* x = x - delta
NewtonUpdate_Added(x, delta) == [j \in 1..Len(x) |-> FAdd(x[j], delta[j])]

NewtonUpdate(x, delta) == VSub(x, delta)

\* ------------------------------------------------------------------------
\* Stability functions (num_complex::Complex<f64>)
\* A complex number is kept exactly, as (re + i im) / den with den > 0;
\* den = 0 stands for the non-finite quotient of a division by zero.
\* ------------------------------------------------------------------------
ZScale == 2

ComplexNew(re, im) == [re |-> re, im |-> im, den |-> 1]

ComplexAdd(a, b) ==
  [re |-> a.re * b.den + b.re * a.den, im |-> a.im * b.den + b.im * a.den,
   den |-> a.den * b.den]

ComplexSub(a, b) ==
  [re |-> a.re * b.den - b.re * a.den, im |-> a.im * b.den - b.im * a.den,
   den |-> a.den * b.den]

\* Div for Complex: both parts are divided by the divisor's norm_sqr
ComplexDiv(a, b) ==
  LET norm_sqr == b.re * b.re + b.im * b.im
  IN [re |-> (a.re * b.re + a.im * b.im) * b.den,
      im |-> (a.im * b.re - a.re * b.im) * b.den,
      den |-> a.den * norm_sqr]

ForwardEulerStability(z) == ComplexAdd(ComplexNew(1, 0), z)

BackwardEulerStability_SignFlipped(z) ==
  ComplexDiv(ComplexNew(1, 0), ComplexAdd(ComplexNew(1, 0), z))

BackwardEulerStability(z) ==
  ComplexDiv(ComplexNew(1, 0), ComplexSub(ComplexNew(1, 0), z))

\* ------------------------------------------------------------------------
\* State of the machine
\* ------------------------------------------------------------------------
VARIABLES
  call,        \* the entry point under analysis: "predict", "step", "newton" or "stability"
  pc,          \* position of the call stack
  model,       \* the dynamics model (&M)
  stepper,     \* the stepper (&mut S): [kind, newton_opts]
  args,        \* arguments of predict: [input, initial_state, t0, t_final, steps]
  pr,          \* locals of predict: [dt, control, states, state, i]
  st,          \* arguments of Stepper::step: [t, state, control, dt]
  nw,          \* frame of newton: [prob, x0, opts, x, x_hist, k]
  ret,         \* value returned by Stepper::step
  nresult,     \* value returned by newton: [some, x, x_hist]
  prediction,  \* value returned by predict: [some, states, control, t0, t_final]
  panic,       \* message of the panic that aborted the run, "" if none
  log          \* calls made so far, in order

vars == << call, pc, model, stepper, args, pr, st, nw, ret, nresult, prediction, panic, log >>

NoPrediction == [some |-> FALSE, states |-> << >>, control |-> NoControl, t0 |-> 0, t_final |-> 0]

NoNewtonResult == [some |-> FALSE, x |-> << >>, x_hist |-> << >>]

NoProblem == Problem("none", << >>, 0, 0, 0, NoControl)

NoFrame == [prob |-> NoProblem, x0 |-> << >>, opts |-> NewtonOptsDefault,
            x |-> << >>, x_hist |-> << >>, k |-> 0]

NoLocals == [dt |-> 0, control |-> NoControl, states |-> << >>, state |-> NoState, i |-> 0]

NoStepArgs == [t |-> 0, state |-> NoState, control |-> NoControl, dt |-> 0]

NoArgs == [input |-> [roll_rad |-> 0, pitch_rad |-> 0, yaw_rate_rps |-> 0],
           initial_state |-> NoState, t0 |-> 0, t_final |-> 0, steps |-> 0]

\* ------------------------------------------------------------------------
\* Inputs
\* ------------------------------------------------------------------------
Inputs ==
  { [roll_rad |-> 0, pitch_rad |-> 0, yaw_rate_rps |-> 0],
    [roll_rad |-> 0, pitch_rad |-> 50, yaw_rate_rps |-> 0],
    [roll_rad |-> 150, pitch_rad |-> -30, yaw_rate_rps |-> 100],
    [roll_rad |-> -120, pitch_rad |-> 99, yaw_rate_rps |-> 0] }

\* at rest; at rest away from the origin; moving and turned; a run that
\* overflows; a NaN component
InitialStates ==
  { << 0, 0, 0, 0, 0 >>,
    << 10, -3, 0, 0, 100 >>,
    << 10, 0, 4, -2, 100 >>,
    << -MaxFinite, 0, (MaxFinite \div 6) + 1, 0, 0 >>,
    << 0, NaN, 0, 0, 0 >> }

NewtonOptsSet ==
  { [iter_max |-> n, min_error |-> e] : n \in (0..MaxIterMax) \cup {DefaultIterMax}, e \in {1, 2} }

Models ==
  { [kind |-> "SimpleQuadcopter", drag |-> d] : d \in {-1, 0, 1} }
  \cup { [kind |-> "SimpleModel", drag |-> d] : d \in {0, 1} }

Steppers ==
  { [kind |-> "ForwardEuler", newton_opts |-> NewtonOptsDefault],
    [kind |-> "Rk4", newton_opts |-> NewtonOptsDefault] }
  \cup { [kind |-> "BackwardEuler", newton_opts |-> o] :
           o \in { [iter_max |-> n, min_error |-> 1] : n \in {2, DefaultIterMax} } }

\* the model/stepper pairs that type-check: ForwardEuler drives the
\* vector-state SimpleModel, Rk4 and BackwardEuler the SimpleQuadcopter
Compatible(m, s) ==
  (s.kind = "ForwardEuler") = (m.kind = "SimpleModel")

\* step sizes are chosen so that dt / 2 and dt / 6 of Rk4 are exact
DtUnit(s) == IF s.kind = "Rk4" THEN 6 ELSE 1

BadTimes == { NaN, PInf, NInf, 0, -6 }

\* the last one makes x0 - c overflow
NewtonVectors == { << 0, 0 >>, << 3, -2 >>, << 1, 5 >>, << MaxFinite, -MaxFinite >> }

NewtonProblems ==
  { Problem(kind, c, jdiag, 0, 0, NoControl) :
      kind \in {"shifted", "constant"}, c \in NewtonVectors, jdiag \in {0, 1, 2} }

\* ------------------------------------------------------------------------
\* Init: one call of predict, of Stepper::step or of newton, about to start
\* ------------------------------------------------------------------------
InitPredict ==
  /\ call = "predict"
  /\ pc = "predict_entry"
  /\ model \in Models
  /\ stepper \in Steppers
  /\ Compatible(model, stepper)
  /\ \E input \in Inputs, s0 \in InitialStates, t0 \in {0, 7}, steps \in 0..MaxSteps :
       \E t_final \in BadTimes \cup
                      { DtUnit(stepper) * (IF steps = 0 THEN 1 ELSE steps) * u : u \in 1..MaxDtUnits } :
         args = [input |-> input, initial_state |-> s0, t0 |-> t0,
                 t_final |-> t_final, steps |-> steps]
  /\ st = NoStepArgs
  /\ nw = NoFrame

InitStep ==
  /\ call = "step"
  /\ pc = "step_entry"
  /\ model \in Models
  /\ stepper \in Steppers
  /\ Compatible(model, stepper)
  /\ \E input \in Inputs :
       /\ args = [NoArgs EXCEPT !.input = input]
       /\ \E s0 \in InitialStates, t \in {0, 7},
             dt \in BadTimes \cup { DtUnit(stepper) * u : u \in 1..MaxDtUnits } :
            st = [t |-> t, state |-> s0, control |-> InputToControl(model, input), dt |-> dt]
  /\ nw = NoFrame

\* the points of the complex plane the stability functions are called at
StabilityPoints ==
  { [re |-> a, im |-> b, den |-> ZScale] : a \in -MaxZ..MaxZ, b \in -MaxZ..MaxZ }

InitStability ==
  /\ call = "stability"
  /\ pc = "stability_entry"
  /\ model = [kind |-> "SimpleQuadcopter", drag |-> 0]
  /\ stepper \in { [kind |-> k, newton_opts |-> NewtonOptsDefault] :
                     k \in {"ForwardEuler", "BackwardEuler"} }
  /\ \E z \in StabilityPoints : args = [z |-> z]
  /\ st = NoStepArgs
  /\ nw = NoFrame

InitNewton ==
  /\ call = "newton"
  /\ pc = "newton_entry"
  /\ model = [kind |-> "SimpleQuadcopter", drag |-> 0]
  /\ stepper = [kind |-> "BackwardEuler", newton_opts |-> NewtonOptsDefault]
  /\ args = NoArgs
  /\ st = NoStepArgs
  /\ \E prob \in NewtonProblems, x0 \in NewtonVectors, opts \in NewtonOptsSet :
       nw = [NoFrame EXCEPT !.prob = prob, !.x0 = x0, !.opts = opts]

Init ==
  /\ (InitPredict \/ InitStep \/ InitNewton \/ InitStability)
  /\ pr = NoLocals
  /\ ret = NoState
  /\ nresult = NoNewtonResult
  /\ prediction = NoPrediction
  /\ panic = ""
  /\ log = << >>

\* ------------------------------------------------------------------------
\* predict
\* ------------------------------------------------------------------------
Panics(msg) == pc' = "panicked" /\ panic' = msg

\* the loop of predict runs for i in 0..steps
PredictLoopContinues_Inclusive(i, steps) == i <= steps

PredictLoopContinues(i, steps) == i < steps

\* the control handed to the stepper at each step
StepControl_Recomputed(locals) ==
  [locals.control EXCEPT ![3] = FAdd(locals.control[3], locals.i)]

StepControl(locals) == locals.control

\* the state handed to validate_state and to the stepper at each step
StepState_Initial(locals) == locals.states[1]

StepState(locals) == locals.state

\* assert!(steps > 0)
StepsValid(steps) == steps > 0

\* assert!(t_final.is_finite() && t_final > 0.0)
TFinalValid_PositiveOnly(t_final) == FGt(t_final, 0)

TFinalValid(t_final) == IsFinite(t_final) /\ FGt(t_final, 0)

\* asserts, dt, input_to_control, states.push(initial_state)
PredictEntry ==
  /\ pc = "predict_entry"
  /\ IF ~StepsValid(args.steps)
       THEN /\ Panics("steps must be > 0")
            /\ UNCHANGED << pr, log >>
     ELSE IF ~TFinalValid(args.t_final)
       THEN /\ Panics("t_final must be finite and > 0")
            /\ UNCHANGED << pr, log >>
     ELSE /\ pr' = [dt |-> FDiv(args.t_final, args.steps),
                    control |-> InputToControl(model, args.input),
                    states |-> << args.initial_state >>,
                    state |-> args.initial_state,
                    i |-> 0]
          /\ log' = log \o << Ev("input_to_control", 0, NoState, NoControl, 0),
                             Ev("push", 0, args.initial_state, NoControl, 0) >>
          /\ pc' = "predict_loop"
          /\ panic' = panic
  /\ UNCHANGED << call, model, stepper, args, st, nw, ret, nresult, prediction >>

\* loop head: t, model.validate_state(&state), then the call of solver.step
PredictIterate ==
  /\ pc = "predict_loop"
  /\ PredictLoopContinues(pr.i, args.steps)
  /\ LET t == FAdd(args.t0, FMul(pr.i, pr.dt))
         validate == Ev("validate_state", 0, StepState(pr), NoControl, 0)
     IN IF ~ValidateState(model, StepState(pr))
          THEN /\ Panics("state must be finite")
               /\ log' = Append(log, validate)
               /\ st' = st
        ELSE /\ st' = [t |-> t, state |-> StepState(pr), control |-> StepControl(pr), dt |-> pr.dt]
             /\ log' = log \o << validate, Ev("step", t, StepState(pr), StepControl(pr), pr.dt) >>
             /\ pc' = "step_entry"
             /\ panic' = panic
  /\ UNCHANGED << call, model, stepper, args, pr, nw, ret, nresult, prediction >>

\* state = <returned state>; states.push(state.clone())
PredictPush ==
  /\ pc = "predict_push"
  /\ pr' = [pr EXCEPT !.state = ret, !.states = Append(pr.states, ret), !.i = pr.i + 1]
  /\ log' = Append(log, Ev("push", 0, ret, NoControl, 0))
  /\ pc' = "predict_loop"
  /\ UNCHANGED << call, model, stepper, args, st, nw, ret, nresult, prediction, panic >>

\* the Prediction built after the loop
PredictReturn ==
  /\ pc = "predict_loop"
  /\ ~PredictLoopContinues(pr.i, args.steps)
  /\ prediction' = [some |-> TRUE, states |-> pr.states, control |-> pr.control,
                    t0 |-> args.t0, t_final |-> args.t_final]
  /\ pc' = "done"
  /\ UNCHANGED << call, model, stepper, args, pr, st, nw, ret, nresult, panic, log >>

\* ------------------------------------------------------------------------
\* Stepper::step
\* ------------------------------------------------------------------------
\* return of step to its caller: predict, or the direct call
StepReturns(val) ==
  /\ ret' = val
  /\ pc' = IF call = "predict" THEN "predict_push" ELSE "done"
  /\ panic' = panic

ExplicitStep(r) ==
  /\ log' = log \o r.calls
  /\ IF r.ok THEN StepReturns(r.val)
     ELSE /\ Panics(IF r.calls = << >> THEN "dt must be finite and > 0"
                    ELSE "state must be finite")
          /\ ret' = ret
  /\ UNCHANGED << call, model, stepper, args, pr, st, nw, nresult, prediction >>

ForwardEulerStepAct ==
  /\ pc = "step_entry"
  /\ stepper.kind = "ForwardEuler"
  /\ ExplicitStep(ForwardEulerStep(model, st.state, st.control, st.dt))

Rk4StepAct ==
  /\ pc = "step_entry"
  /\ stepper.kind = "Rk4"
  /\ ExplicitStep(Rk4Step(model, st.t, st.state, st.control, st.dt))

\* BackwardEuler::step up to the call of newton
BackwardEulerEntry ==
  /\ pc = "step_entry"
  /\ stepper.kind = "BackwardEuler"
  /\ LET u_prev == to_dvector(st.state)
     IN IF ~DtValid(st.dt)
          THEN /\ Panics("dt must be finite and > 0")
               /\ nw' = nw
        ELSE IF ~(Len(u_prev) > 0)
          THEN /\ Panics("state dimension must be > 0")
               /\ nw' = nw
        ELSE /\ nw' = [NoFrame EXCEPT
                         !.prob = Problem("be", u_prev, 0, st.t, st.dt, st.control),
                         !.x0 = u_prev,
                         !.opts = stepper.newton_opts]
             /\ pc' = "newton_entry"
             /\ panic' = panic
  /\ UNCHANGED << call, model, stepper, args, pr, st, ret, nresult, prediction, log >>

\* BackwardEuler::step after newton returned: M::State::from_dvector(x_next)
BackwardEulerExit ==
  /\ pc = "be_exit"
  /\ LET r == from_dvector(nresult.x)
     IN IF r.ok THEN StepReturns(r.val)
        ELSE /\ Panics("SimpleQuadState expects 5 elements")
             /\ ret' = ret
  /\ UNCHANGED << call, model, stepper, args, pr, st, nw, nresult, prediction, log >>

\* ------------------------------------------------------------------------
\* newton
\* ------------------------------------------------------------------------
\* x_hist = [x0], x = x0
NewtonEntry ==
  /\ pc = "newton_entry"
  /\ nw' = [nw EXCEPT !.x = nw.x0, !.x_hist = << nw.x0 >>, !.k = 1]
  /\ nresult' = NoNewtonResult
  /\ pc' = "newton_loop"
  /\ UNCHANGED << call, model, stepper, args, pr, st, ret, prediction, panic, log >>

\* one pass through the loop body
NewtonIterate ==
  /\ pc = "newton_loop"
  /\ NewtonLoopContinues(nw.k, nw.opts)
  /\ LET fx == Residual(model, nw.prob, nw.x)
         log1 == Append(log, Ev("f", 0, nw.x, NoControl, 0)) \o fx.calls
         jx == JacobianOf(model, nw.prob, nw.x)
         log2 == Append(log1, Ev("dfdx", 0, nw.x, NoControl, 0)) \o jx.calls
         delta == LuSolve(jx.val, fx.val)
         x == NewtonUpdate(nw.x, delta.val)
     IN IF ~fx.ok
          THEN /\ Panics("state must be finite")
               /\ log' = log1
               /\ nw' = nw
        ELSE IF Converged(fx.val, nw.opts)
          THEN /\ pc' = "newton_exit"
               /\ log' = log1
               /\ UNCHANGED << nw, panic >>
        ELSE IF ~jx.ok
          THEN /\ Panics("jacobian must be square with dimension matching the state")
               /\ log' = log2
               /\ nw' = nw
        ELSE IF ~delta.some
          THEN /\ Panics("Newton: Jacobian is singular / solve failed")
               /\ log' = log2
               /\ nw' = nw
        ELSE /\ nw' = [nw EXCEPT !.x = x, !.x_hist = Append(nw.x_hist, x), !.k = nw.k + 1]
             /\ log' = log2
             /\ pc' = "newton_loop"
             /\ panic' = panic
  /\ UNCHANGED << call, model, stepper, args, pr, st, ret, nresult, prediction >>

\* (x, x_hist) returned after a break or when the range is exhausted
NewtonReturn ==
  /\ \/ pc = "newton_exit"
     \/ pc = "newton_loop" /\ ~NewtonLoopContinues(nw.k, nw.opts)
  /\ nresult' = [some |-> TRUE, x |-> nw.x, x_hist |-> nw.x_hist]
  /\ pc' = IF call = "newton" THEN "done" ELSE "be_exit"
  /\ UNCHANGED << call, model, stepper, args, pr, st, nw, ret, prediction, panic, log >>

ForwardEulerStabilityAct ==
  /\ pc = "stability_entry"
  /\ stepper.kind = "ForwardEuler"
  /\ ret' = ForwardEulerStability(args.z)
  /\ pc' = "done"
  /\ UNCHANGED << call, model, stepper, args, pr, st, nw, nresult, prediction, panic, log >>

BackwardEulerStabilityAct ==
  /\ pc = "stability_entry"
  /\ stepper.kind = "BackwardEuler"
  /\ ret' = BackwardEulerStability(args.z)
  /\ pc' = "done"
  /\ UNCHANGED << call, model, stepper, args, pr, st, nw, nresult, prediction, panic, log >>

\* ------------------------------------------------------------------------
\* Specification
\* ------------------------------------------------------------------------
Next ==
  \/ PredictEntry
  \/ PredictIterate
  \/ PredictPush
  \/ PredictReturn
  \/ ForwardEulerStepAct
  \/ Rk4StepAct
  \/ BackwardEulerEntry
  \/ BackwardEulerExit
  \/ NewtonEntry
  \/ NewtonIterate
  \/ NewtonReturn
  \/ ForwardEulerStabilityAct
  \/ BackwardEulerStabilityAct

Spec == Init /\ [][Next]_vars

\* ------------------------------------------------------------------------
\* Properties
\* ------------------------------------------------------------------------
IsDriverEv(e) == e.op \in {"validate_state", "step", "push"}

\* the calls made by the loop of predict itself, in order
DriverLog == SelectSeq(log, IsDriverEv)

IsControlEv(e) == e.op = "input_to_control"

CountOf(op) == Cardinality({k \in 1..Len(log) : log[k].op = op})

\* C1: a predict call with steps = N > 0 that returns yields exactly N+1
\* recorded states, the first of which is the caller-supplied initial state.
C1_TrajectoryLength ==
  prediction.some =>
    /\ args.steps > 0
    /\ Len(prediction.states) = args.steps + 1
    /\ prediction.states[1] = args.initial_state

C1_Witness ==
  /\ prediction.some
  /\ args.steps >= 2
  /\ prediction.states[Len(prediction.states)] # args.initial_state

\* C2: within one predict run input_to_control is called exactly once, before
\* the first step; every stepper.step call receives that same control value,
\* which is also the control stored in the returned Prediction.
C2_ControlInvariance ==
  call = "predict" =>
    /\ CountOf("input_to_control") <= 1
    /\ \A k \in 1..Len(log) :
         log[k].op = "step" =>
           /\ \E j \in 1..(k - 1) : log[j].op = "input_to_control"
           /\ log[k].control = InputToControl(model, args.input)
           /\ log[k].control = pr.control
    /\ prediction.some =>
         /\ CountOf("input_to_control") = 1
         /\ prediction.control = InputToControl(model, args.input)
         /\ prediction.control = pr.control

C2_Witness ==
  /\ prediction.some
  /\ args.steps >= 2
  /\ CountOf("step") = args.steps
  /\ prediction.control # << 0, 0, 0 >>

\* C3: predict performs exactly `steps` iterations; iteration i validates the
\* current state, then calls step(model, t0 + i*dt, state, control, dt) with
\* dt = t_final / steps, then appends the returned state; the state given to
\* iteration i+1 is the state returned (and appended) by iteration i.
C3_IterationOrder ==
  call = "predict" =>
    LET D == DriverLog
        dt == FDiv(args.t_final, args.steps)
    IN /\ \A k \in 1..Len(D) :
            IF k = 1 THEN D[k].op = "push" /\ D[k].state = args.initial_state
            ELSE LET i == (k - 2) \div 3
                     r == (k - 2) % 3
                 IN /\ i < args.steps
                    /\ r = 0 => /\ D[k].op = "validate_state"
                                /\ D[k - 1].op = "push"
                                /\ D[k].state = D[k - 1].state
                    /\ r = 1 => /\ D[k].op = "step"
                                /\ D[k].state = D[k - 1].state
                                /\ D[k].t = FAdd(args.t0, FMul(i, dt))
                                /\ D[k].dt = dt
                                /\ D[k].control = pr.control
                    /\ r = 2 => /\ D[k].op = "push"
                                /\ D[k].state = pr.states[i + 2]
       /\ (pc = "predict_loop" /\ pr.i > 0) =>
            /\ pr.state = ret
            /\ pr.states[pr.i + 1] = ret
       /\ prediction.some =>
            /\ Len(D) = 1 + 3 * args.steps
            /\ prediction.states = [n \in 1..(args.steps + 1) |-> D[3 * n - 2].state]

C3_Witness ==
  /\ prediction.some
  /\ args.steps = 2
  /\ args.t0 # 0
  /\ prediction.states[2] # prediction.states[1]
  /\ prediction.states[3] # prediction.states[2]

\* C4: predict called with steps = 0, or with a t_final that is not finite or
\* not > 0, aborts before input_to_control, validate_state or step is called
\* and returns no Prediction.
C4_PreconditionAbort ==
  (call = "predict" /\ (args.steps = 0 \/ ~IsFinite(args.t_final) \/ args.t_final <= 0)) =>
    /\ pc \in {"predict_entry", "panicked"}
    /\ ~prediction.some
    /\ log = << >>
    /\ pr = NoLocals

C4_Witness ==
  /\ call = "predict"
  /\ pc = "panicked"
  /\ args.steps > 0
  /\ args.t_final = PInf

NonFiniteRecorded ==
  \E k \in 1..Len(prediction.states) : ~ensure_finite(prediction.states[k])

\* C5: with a model whose validate_state asserts finiteness (SimpleQuadcopter)
\* every state produced by a step is checked, the last one included, so every
\* state recorded in a returned Prediction has all components finite.
C5_RecordedStatesFinite ==
  (prediction.some /\ model.kind = "SimpleQuadcopter") => ~NonFiniteRecorded

CountIn(l, op) == Cardinality({k \in 1..Len(l) : l[k].op = op})

\* the residual test of newton at x: max-abs residual strictly below min_error
ResidualBelow(x) ==
  LET fx == Residual(model, nw.prob, x)
  IN fx.ok /\ FLt(MaxAbs(fx.val), nw.opts.min_error)

NoIterateBelow == \A k \in 1..Len(nw.x_hist) : ~ResidualBelow(nw.x_hist[k])

\* C6: newton makes at most iter_max iterations, and a call that uses up the
\* cap with no iterate below min_error returns normally, with the last
\* iterate and its history, without a panic.
C6_NewtonCap ==
  nw.x_hist # << >> =>
    /\ Len(nw.x_hist) - 1 <= nw.opts.iter_max
    /\ (/\ call = "newton"
        /\ Len(nw.x_hist) >= nw.opts.iter_max
        /\ NoIterateBelow) =>
          /\ pc \in {"newton_loop", "done"}
          /\ panic = ""
          /\ pc = "done" =>
               /\ nresult.some
               /\ nresult.x = nw.x_hist[Len(nw.x_hist)]
               /\ nresult.x_hist = nw.x_hist

C6_Witness ==
  /\ call = "newton"
  /\ pc = "done"
  /\ nw.opts.iter_max = DefaultIterMax
  /\ Len(nresult.x_hist) = DefaultIterMax
  /\ NoIterateBelow

\* C7: each newton iteration evaluates the residual at the current iterate; if
\* its max-abs component is strictly below min_error the solver stops without
\* evaluating the Jacobian and returns that iterate, otherwise it solves
\* J*delta = residual, sets x to x - delta and appends exactly one iterate.
\* A converged initial guess is returned as is, with a one-entry history.
C7_IterationRule ==
  [][ /\ (pc = "newton_loop" /\ nw.k < nw.opts.iter_max) =>
           LET fx == Residual(model, nw.prob, nw.x)
               below == FLt(MaxAbs(fx.val), nw.opts.min_error)
           IN /\ CountIn(log', "f") = CountIn(log, "f") + 1
              /\ (fx.ok /\ below) =>
                   /\ pc' = "newton_exit"
                   /\ nw' = nw
                   /\ CountIn(log', "dfdx") = CountIn(log, "dfdx")
              /\ (fx.ok /\ ~below) =>
                   /\ pc' \in {"newton_loop", "panicked"}
                   /\ CountIn(log', "dfdx") = CountIn(log, "dfdx") + 1
                   /\ pc' = "newton_loop" =>
                        /\ nw'.x_hist = Append(nw.x_hist, nw'.x)
                        /\ nw'.k = nw.k + 1
                        /\ call = "newton" =>
                             \A j \in 1..Len(nw.x) :
                               LET delta == FSub(nw.x[j], nw'.x[j])
                                   jdelta == FMul(nw.prob.jdiag, delta)
                               IN (IsFinite(fx.val[j]) /\ IsFinite(jdelta)) =>
                                    Abs(fx.val[j] - jdelta) < nw.prob.jdiag
      /\ pc = "newton_exit" =>
           /\ nresult'.some
           /\ nresult'.x = nw.x
           /\ nresult'.x_hist = nw.x_hist
      /\ (nresult'.some /\ ~nresult.some /\ ResidualBelow(nw.x0)) =>
           /\ nresult'.x = nw.x0
           /\ nresult'.x_hist = << nw.x0 >>
    ]_vars

C7_Witness ==
  /\ call = "newton"
  /\ pc = "done"
  /\ Len(nresult.x_hist) >= 3
  /\ ResidualBelow(nresult.x)
  /\ nw.prob.jdiag = 2

\* the residual magnitudes along the history of a shifted problem F(x) = x - c
ShiftedResidualNorm(x) == MaxAbs(VSub(x, nw.prob.c))

ShiftedIdentityReturned ==
  /\ call = "newton"
  /\ nw.prob.kind = "shifted"
  /\ nw.prob.jdiag = 1
  /\ pc \in {"done", "panicked"}

ShiftedConverged ==
  /\ pc = "done"
  /\ nresult.some
  /\ ShiftedResidualNorm(nresult.x) < nw.opts.min_error
  /\ Len(nresult.x_hist) >= 1
  /\ Len(nresult.x_hist) <= 2
  /\ Len(nresult.x_hist) = 2 => nresult.x = nw.prob.c
  /\ \A k \in 1..(Len(nresult.x_hist) - 1) :
       ShiftedResidualNorm(nresult.x_hist[k + 1]) <= ShiftedResidualNorm(nresult.x_hist[k])

\* C8 as stated: for F(x) = x - c with identity Jacobian and any initial guess
\* newton returns a solution with residual below min_error after at most a
\* small fixed number of iterations, with a non-empty history whose residual
\* magnitudes never increase.
C8_ShiftedConverges == ShiftedIdentityReturned => ShiftedConverged

\* C8 (amended): the same, for calls whose options allow at least one
\* iteration (iter_max >= 2, as the default 15 does) and whose initial
\* residual x0 - c does not overflow.
C8_ShiftedConvergesWithIteration ==
  (/\ ShiftedIdentityReturned
   /\ nw.opts.iter_max >= 2
   /\ nw.opts.min_error > 0
   /\ ensure_finite(VSub(nw.x0, nw.prob.c))) => ShiftedConverged

C8_Witness ==
  /\ ShiftedIdentityReturned
  /\ nw.opts.iter_max = DefaultIterMax
  /\ nw.x0 # nw.prob.c
  /\ nresult.x = nw.prob.c
  /\ Len(nresult.x_hist) = 2

SingularMessage == "Newton: Jacobian is singular / solve failed"

\* C9: when the Jacobian at a non-converged Newton iterate is singular, newton
\* panics and returns nothing; inside BackwardEuler.step during predict the
\* whole run aborts: no state is returned by the step, no Prediction by
\* predict, and nothing happens after the panic.
C9_SingularAborts ==
  [][ /\ (pc = "newton_loop" /\ nw.k < nw.opts.iter_max) =>
           LET fx == Residual(model, nw.prob, nw.x)
               jx == JacobianOf(model, nw.prob, nw.x)
           IN (/\ fx.ok
               /\ ~FLt(MaxAbs(fx.val), nw.opts.min_error)
               /\ jx.ok
               /\ \E r \in 1..Len(jx.val) : jx.val[r][r] = 0) =>
                 /\ pc' = "panicked"
                 /\ panic' = SingularMessage
                 /\ ~nresult'.some
                 /\ ~prediction'.some
                 /\ ret' = ret
                 /\ pr' = pr
      /\ pc # "panicked"
    ]_vars

C9_Witness ==
  /\ call = "predict"
  /\ stepper.kind = "BackwardEuler"
  /\ pc = "panicked"
  /\ panic = SingularMessage
  /\ Len(pr.states) >= 1
  /\ ~prediction.some
  /\ ~nresult.some

\* C10: for each of ForwardEuler, Rk4 and BackwardEuler, step called with a dt
\* that is not finite or not > 0 panics before any call of the model's
\* derivative or jacobian and returns no state.
C10_StepDtAbort ==
  (call = "step" /\ (~IsFinite(st.dt) \/ st.dt <= 0)) =>
    /\ pc \in {"step_entry", "panicked"}
    /\ log = << >>
    /\ ret = NoState
    /\ nw = NoFrame

C10_Witness ==
  /\ call = "step"
  /\ stepper.kind = "BackwardEuler"
  /\ st.dt = PInf
  /\ pc = "panicked"

ZeroInput == [roll_rad |-> 0, pitch_rad |-> 0, yaw_rate_rps |-> 0]

ZeroState == << 0, 0, 0, 0, 0 >>

\* a predict run from rest with the sticks centred
EquilibriumRun ==
  /\ call = "predict"
  /\ args.input = ZeroInput
  /\ args.initial_state[3] = 0
  /\ args.initial_state[4] = 0
  /\ ensure_finite(args.initial_state)

\* C11: with zero pitch, roll and yaw-rate input and an initial state with zero
\* velocity the derivative is zero in every component, so for every stepper,
\* every steps > 0 and every drag each state recorded by predict equals the
\* initial state.
C11_ZeroInputEquilibrium ==
  EquilibriumRun =>
    /\ \A k \in 1..Len(log) :
         log[k].op = "derivative" =>
           /\ log[k].control = << 0, 0, 0 >>
           /\ log[k].state = args.initial_state
           /\ Derivative(model, log[k].t, log[k].state, log[k].control)
                = [ok |-> TRUE, val |-> ZeroState]
    /\ \A k \in 1..Len(pr.states) : pr.states[k] = args.initial_state
    /\ prediction.some =>
         \A k \in 1..Len(prediction.states) : prediction.states[k] = args.initial_state

C11_Witness ==
  /\ EquilibriumRun
  /\ prediction.some
  /\ args.steps >= 2
  /\ stepper.kind = "BackwardEuler"
  /\ model.drag # 0
  /\ args.initial_state # ZeroState
  /\ CountOf("derivative") >= 2

\* tilt angles at and beyond the clamp, on both sides
TiltProbes == { 96, 99, 100, 150, -96, -99, -120 }

BeyondClampSameSide(a, b) ==
  \/ a > MAX_TILT_RAD /\ b > MAX_TILT_RAD
  \/ a < -MAX_TILT_RAD /\ b < -MAX_TILT_RAD

\* g * tan(0.95 * pi / 2)
MaxBodyAcceleration == GRAVITY * Tan100[MAX_TILT_RAD + 1]

\* C12: every model's input_to_control clamps pitch and roll to +/- 95% of a
\* right angle before the tangent: the body accelerations it produces are
\* bounded by g * tan(0.95 * pi / 2) in magnitude, and two inputs beyond the
\* clamp on the same side yield the same control.
C12_TiltClamped ==
  (call = "predict" /\ pr.control # NoControl) =>
    /\ IsFinite(pr.control[1]) /\ FAbs(pr.control[1]) <= MaxBodyAcceleration
    /\ IsFinite(pr.control[2]) /\ FAbs(pr.control[2]) <= MaxBodyAcceleration
    /\ \A p \in TiltProbes :
         BeyondClampSameSide(args.input.pitch_rad, p) =>
           InputToControl(model, [args.input EXCEPT !.pitch_rad = p]) = pr.control
    /\ \A r \in TiltProbes :
         BeyondClampSameSide(args.input.roll_rad, r) =>
           InputToControl(model, [args.input EXCEPT !.roll_rad = r]) = pr.control

ComplexEq(a, b) ==
  /\ a.den # 0 /\ b.den # 0
  /\ a.re * b.den = b.re * a.den
  /\ a.im * b.den = b.im * a.den

\* |a|^2 and 1, both scaled by den^2
NormSqrNum(a) == a.re * a.re + a.im * a.im

StabilityReturned == call = "stability" /\ pc = "done"

\* C13: ForwardEuler::stability(0) = 1 and BackwardEuler::stability(0) = 1;
\* for every real z < -2 the explicit Euler value 1 + z has modulus > 1; for
\* every complex z with non-positive real part the implicit Euler value
\* 1 / (1 - z) has modulus <= 1.
C13_StabilityFunctions ==
  StabilityReturned =>
    LET z == args.z
    IN /\ (z.re = 0 /\ z.im = 0) => ComplexEq(ret, ComplexNew(1, 0))
       /\ (stepper.kind = "ForwardEuler" /\ z.im = 0 /\ z.re < -2 * z.den) =>
            (ret.den # 0 /\ NormSqrNum(ret) > ret.den * ret.den)
       /\ (stepper.kind = "BackwardEuler" /\ z.re <= 0) =>
            (ret.den # 0 /\ NormSqrNum(ret) <= ret.den * ret.den)

C13_Witness ==
  /\ StabilityReturned
  /\ stepper.kind = "BackwardEuler"
  /\ args.z.re < 0
  /\ args.z.im # 0
  /\ NormSqrNum(ret) < ret.den * ret.den

\* a direct Rk4 step that returned
Rk4Returned == call = "step" /\ stepper.kind = "Rk4" /\ pc = "done"

\* the value k_i the model returned at the i-th logged evaluation point
StageValue(i) == Derivative(model, log[i].t, log[i].state, log[i].control).val

\* state + scale * k, written out per component
Advanced(state, scale, k) == [j \in 1..Len(state) |-> FAdd(state[j], FMul(scale, k[j]))]

C14_WitnessVaryingStages ==
  /\ Rk4Returned
  /\ Len(log) = 4
  /\ StageValue(1) # StageValue(2)
  /\ StageValue(2) # StageValue(3)

\* a BackwardEuler step between its call of newton and its return
BeStepInNewton ==
  /\ call \in {"step", "predict"}
  /\ stepper.kind = "BackwardEuler"
  /\ pc \in {"newton_entry", "newton_loop", "newton_exit", "be_exit"}

\* a BackwardEuler step that has just returned
BeStepReturned ==
  /\ stepper.kind = "BackwardEuler"
  /\ \/ call = "step" /\ pc = "done"
     \/ call = "predict" /\ pc = "predict_push"

\* x - state - dt * derivative(t + dt, x, control), from the step's arguments
ExpectedResidual(x) ==
  LET d == Derivative(model, FAdd(st.t, st.dt), x, st.control).val
  IN [j \in 1..Len(x) |-> FSub(FSub(x[j], st.state[j]), FMul(st.dt, d[j]))]

\* I - dt * jacobian(t + dt, x, control), from the step's arguments
ExpectedJacobian(x) ==
  LET J == QuadJacobian(model, FAdd(st.t, st.dt), x, st.control)
  IN [r \in 1..Len(x) |-> [c \in 1..Len(x) |->
        FSub(IF r = c THEN 1 ELSE 0, FMul(st.dt, J[r][c]))]]

\* hist is the Newton iteration on the two expressions above, started at the
\* step's state: each iterate is unconverged and is followed by the iterate
\* less the solution of ExpectedJacobian * delta = ExpectedResidual, and the
\* last one is converged or the cap on the passes is used up
ExpectedIteration(hist) ==
  /\ Len(hist) >= 1
  /\ hist[1] = st.state
  /\ \A k \in 1..(Len(hist) - 1) :
       LET fx == ExpectedResidual(hist[k])
           delta == LuSolve(ExpectedJacobian(hist[k]), fx)
       IN /\ k < stepper.newton_opts.iter_max
          /\ ~FLt(MaxAbs(fx), stepper.newton_opts.min_error)
          /\ delta.some
          /\ hist[k + 1] = [j \in 1..Len(fx) |-> FSub(hist[k][j], delta.val[j])]
  /\ \/ ~(Len(hist) < stepper.newton_opts.iter_max)
     \/ FLt(MaxAbs(ExpectedResidual(hist[Len(hist)])), stepper.newton_opts.min_error)

BackwardEulerContract ==
  /\ BeStepInNewton =>
       /\ nw.x0 = st.state
       /\ nw.opts = stepper.newton_opts
       /\ nw.prob = Problem("be", st.state, 0, st.t, st.dt, st.control)
       /\ pc = "newton_entry" => nw = [NoFrame EXCEPT !.prob = nw.prob, !.x0 = nw.x0,
                                                      !.opts = nw.opts]
       /\ pc # "newton_entry" => nw.x_hist[1] = st.state
       /\ pc = "be_exit" => ExpectedIteration(nresult.x_hist)
  /\ BeStepReturned =>
       /\ ExpectedIteration(nresult.x_hist)
       /\ ret = nresult.x_hist[Len(nresult.x_hist)]
  /\ (call = "step" /\ stepper.kind = "BackwardEuler") =>
       \A k \in 1..Len(log) :
         /\ log[k].op \in {"derivative", "jacobian"} =>
              /\ log[k].t = FAdd(st.t, st.dt)
              /\ log[k].control = st.control
              /\ k > 1
              /\ log[k - 1].op = (IF log[k].op = "derivative" THEN "f" ELSE "dfdx")
              /\ log[k - 1].state = log[k].state
         /\ (log[k].op = "f" /\ Residual(model, nw.prob, log[k].state).ok) =>
              Residual(model, nw.prob, log[k].state).val = ExpectedResidual(log[k].state)
         /\ (log[k].op = "jacobian" /\ JacobianOf(model, nw.prob, log[k].state).ok) =>
              JacobianOf(model, nw.prob, log[k].state).val = ExpectedJacobian(log[k].state)

\* C15: BackwardEuler.step returns the Newton solution of the residual
\* x - state - dt * derivative(t + dt, x, control) with residual Jacobian
\* I - dt * jacobian(t + dt, x, control), started from the current state; the
\* step leaves newton_opts unchanged and keeps no other data, so its result is
\* a function of (model, t, state, control, dt, newton_opts) alone.
C15_BackwardEulerStep ==
  /\ []BackwardEulerContract
  /\ [][stepper' = stepper /\ model' = model]_vars

C15_Witness ==
  /\ call = "predict"
  /\ stepper.kind = "BackwardEuler"
  /\ pc = "predict_push"
  /\ pr.i >= 1
  /\ Len(nresult.x_hist) >= 2
  /\ ExpectedIteration(nresult.x_hist)
  /\ ret # st.state
  /\ CountOf("jacobian") >= 2

\* a newton call has returned and its frame is still the current one
NewtonReturned == nresult.some /\ pc # "newton_entry"

NewtonHistoryShape ==
  /\ Len(nresult.x_hist) >= 1
  /\ nresult.x_hist[1] = nw.x0
  /\ nresult.x = nresult.x_hist[Len(nresult.x_hist)]

\* C16 as stated: for every newton call that returns, with any iter_max >= 0,
\* the iterate history is non-empty, its first entry is the initial guess, the
\* returned solution is its last entry, and its length never exceeds iter_max.
C16_HistoryWithinIterMax ==
  NewtonReturned =>
    /\ NewtonHistoryShape
    /\ Len(nresult.x_hist) <= nw.opts.iter_max

\* C16, amended: for every newton call that returns, with any iter_max >= 0,
\* the iterate history is non-empty, its first entry is the initial guess, the
\* returned solution is its last entry, and its length never exceeds
\* max(iter_max, 1): the initial guess is recorded even when iter_max = 0.
C16_HistoryWithinIterMaxOrOne ==
  NewtonReturned =>
    /\ NewtonHistoryShape
    /\ Len(nresult.x_hist) <= (IF nw.opts.iter_max >= 1 THEN nw.opts.iter_max ELSE 1)
    /\ nw.opts.iter_max = 0 => Len(nresult.x_hist) = 1

C16_Witness ==
  /\ call = "newton"
  /\ pc = "done"
  /\ nresult.some
  /\ nw.opts.iter_max >= 2
  /\ Len(nresult.x_hist) = nw.opts.iter_max
  /\ nresult.x # nw.x0

C16_WitnessZeroIterMax ==
  /\ call = "newton"
  /\ pc = "done"
  /\ nresult.some
  /\ nw.opts.iter_max = 0

====
